---- MODULE Spec2Model ----
(***************************************************************************)
(* Recurring events engine of src/src/routes/events.js: the three tables   *)
(* Recurring_Events, Event_Instances and Event_Exceptions and the POST,    *)
(* GET, PUT and DELETE handlers of /api/events that read and write them.   *)
(*                                                                         *)
(* Dates are day numbers (ISO date strings compare as the days they name). *)
(* Of the content columns (title, description, start_time, end_time,       *)
(* location) the model carries title: every statement of events.js reads   *)
(* and writes the five columns together.                                   *)
(* A request reaches a handler after its JSON body and required fields     *)
(* were accepted (request validation is an external collaborator).         *)
(* In Spec mutating requests are served one after another; reads may      *)
(* arrive between the awaited statements of a create, which runs outside   *)
(* any transaction.  ConcSpec interleaves the awaited statements of two    *)
(* requests on the one connection of the store.  MatSpec applies the       *)
(* materialization of a series to rules and anchor dates.  BookSpec        *)
(* serves the /api/bookings requests over the tables Bookings and          *)
(* Course_Sessions of medicine/migrations/schema.sql.                      *)
(* All requests of a behaviour are served on the day Today (the value of   *)
(* new Date()); the series start the day before.  served                   *)
(* counts the mutating requests accepted so far.                           *)
(***************************************************************************)
EXTENDS Integers, Sequences, FiniteSets

VARIABLES events, instances, exceptions, seq, creating, last, served, conc, mat,
          book

vars == <<events, instances, exceptions, seq, creating, last, served, conc,
         mat, book>>

(* ---------------------------- bounds ----------------------------------- *)
MaxEvents == 2
MaxInstId == 3
MaxExcId == 2
Today == 2
MaxFailAt == 2
MaxRequests == 4
MaxInterval == 3
MaxCount == 4
MaxStart == 3
MaxSeed == 2
Capacity == 2

(* ------------------------- program constants --------------------------- *)
DefaultCount == 10

(* --------------------------- request inputs ---------------------------- *)
Titles == {"A", "B"}
StartDates == {1}
EventIds == 1..MaxEvents
NoDate == 0
InstanceDates == {NoDate, 1, 2, 9}
UpdateScopes == {"all", "thisAndFuture", "this"}
DeleteScopes == {"all", "thisAndFuture", "this", "other"}

(* Recurrence rule texts, as the key=value pairs between the semicolons.   *)
(* The empty text is the absent (falsy) recurrenceRule.                    *)
NoRuleText == <<>>
RuleTexts ==
  { << <<"FREQ", "DAILY">>, <<"COUNT", "1">> >>,
    << <<"FREQ", "DAILY">>, <<"COUNT", "2">> >>,
    << <<"FREQ", "HOURLY">>, <<"COUNT", "2">> >>,
    << <<"INVALID_RULE", "">> >> }

(* ----------------------------- RuleParser ------------------------------ *)
HasKey(text, k) == \E i \in 1..Len(text) : text[i][1] = k

ValueOf(text, k) == text[CHOOSE i \in 1..Len(text) : text[i][1] = k][2]

Frequencies == {"DAILY", "WEEKLY", "MONTHLY", "YEARLY"}

\* decimal text to number; 0 stands for a text that is no positive integer
ParseInt(str) ==
  CASE str = "1" -> 1 [] str = "2" -> 2 [] str = "3" -> 3 [] str = "4" -> 4
    [] str = "5" -> 5 [] str = "6" -> 6 [] str = "7" -> 7 [] str = "8" -> 8
    [] str = "9" -> 9 [] str = "10" -> 10 [] OTHER -> 0

\* weekday abbreviation to its number in the week, Monday first; 0 stands
\* for an unrecognized token.  The value of BYDAY is the sequence of the
\* tokens between its commas.
WeekdayNumber(token) ==
  CASE token = "MO" -> 1 [] token = "TU" -> 2 [] token = "WE" -> 3
    [] token = "TH" -> 4 [] token = "FR" -> 5 [] token = "SA" -> 6
    [] token = "SU" -> 7 [] OTHER -> 0

\* parseRRule throws exactly when ValidRule is false
ValidRule(text) ==
  /\ HasKey(text, "FREQ")
  /\ ValueOf(text, "FREQ") \in Frequencies
  /\ HasKey(text, "INTERVAL") => ParseInt(ValueOf(text, "INTERVAL")) >= 1
  /\ HasKey(text, "COUNT") => ParseInt(ValueOf(text, "COUNT")) >= 1
  /\ HasKey(text, "BYDAY") =>
       /\ Len(ValueOf(text, "BYDAY")) >= 1
       /\ \A i \in 1..Len(ValueOf(text, "BYDAY")) :
            WeekdayNumber(ValueOf(text, "BYDAY")[i]) >= 1

LowerFreq(f) ==
  CASE f = "DAILY" -> "daily"
    [] f = "WEEKLY" -> "weekly"
    [] f = "MONTHLY" -> "monthly"
    [] f = "YEARLY" -> "yearly"

\* count 0 is the absent COUNT
parseRRule(text) ==
  [frequency |-> LowerFreq(ValueOf(text, "FREQ")),
   interval |-> IF HasKey(text, "INTERVAL")
                  THEN ParseInt(ValueOf(text, "INTERVAL")) ELSE 1,
   count |-> IF HasKey(text, "COUNT") THEN ParseInt(ValueOf(text, "COUNT")) ELSE 0,
   days_of_week |-> IF HasKey(text, "BYDAY")
                      THEN {WeekdayNumber(ValueOf(text, "BYDAY")[i]) :
                              i \in 1..Len(ValueOf(text, "BYDAY"))}
                      ELSE {}]

\* recurrenceRule = null
NullRule == [frequency |-> "null", interval |-> 0, count |-> 0,
             days_of_week |-> {}]

\* let recurrenceRule = null; if (data.recurrenceRule) recurrenceRule = parseRRule(...)
RuleOf(text) == IF text = NoRuleText THEN NullRule ELSE parseRRule(text)

\* mutant: one occurrence more than the bound
instanceCountOff(rule) ==
  IF rule.count = 0 THEN DefaultCount + 1 ELSE rule.count + 1

\* recurrenceRule.count || 10
instanceCount(rule) == IF rule.count = 0 THEN DefaultCount ELSE rule.count

\* the rule texts parseRRule accepts, and those it throws on
ValidTexts == {t \in RuleTexts : ValidRule(t)}

InvalidTexts == RuleTexts \ ValidTexts

(* -------------------------- InstanceMaterializer ----------------------- *)
\* mutant: INTERVAL is ignored
StepDaysNoInterval(rule) ==
  CASE rule.frequency = "daily" -> 1
    [] rule.frequency = "weekly" -> 7
    [] OTHER -> 0

StepDays(rule) ==
  rule.interval * (CASE rule.frequency = "daily" -> 1
                     [] rule.frequency = "weekly" -> 7
                     [] OTHER -> 0)

\* The calendar of the day numbers: day 1 is a Monday and the first day of
\* a January; years have 365 days.
DayOfWeek(d) == ((d - 1) % 7) + 1

WeekOf(d) == (d - 1) \div 7

MonthLengths == <<31, 28, 31, 30, 31, 30, 31, 31, 30, 31, 30, 31>>

\* months are numbered from 0 (the January of day 1) across the years
MonthLength(m) == MonthLengths[(m % 12) + 1]

\* the days of the year before each of its months
DaysBeforeMonth == <<0, 31, 59, 90, 120, 151, 181, 212, 243, 273, 304, 334>>

DaysBefore(m) == 365 * (m \div 12) + DaysBeforeMonth[(m % 12) + 1]

MonthOf(d) ==
  CHOOSE m \in (12 * ((d - 1) \div 365))..(12 * ((d - 1) \div 365) + 11) :
    DaysBefore(m) < d /\ d <= DaysBefore(m) + MonthLength(m)

DayOfMonth(d) == d - DaysBefore(MonthOf(d))

\* mutant: every weekday of a qualifying week is taken
QualifiesAnyWeekday(d, start, rule) ==
  (WeekOf(d) - WeekOf(start)) % rule.interval = 0

\* weekly with BYDAY: the day is one of the weekdays, in an interval-th week
\* counted from the week of the anchor
Qualifies(d, start, rule) ==
  /\ DayOfWeek(d) \in rule.days_of_week
  /\ (WeekOf(d) - WeekOf(start)) % rule.interval = 0

\* the first qualifying day from day d on; one lies within interval weeks
NextQualifying(d, start, rule) ==
  CHOOSE q \in d..(d + 7 * rule.interval + 6) :
    /\ Qualifies(q, start, rule)
    /\ \A e \in d..(q - 1) : ~Qualifies(e, start, rule)

\* the first n qualifying days from day d on, in ascending order
RECURSIVE ByDayFrom(_, _, _, _)
ByDayFrom(d, start, rule, n) ==
  IF n = 0 THEN <<>>
  ELSE <<NextQualifying(d, start, rule)>>
         \o ByDayFrom(NextQualifying(d, start, rule) + 1, start, rule, n - 1)

\* mutant: a month without the day gives its last day
DayInClamped(m, dom) ==
  DaysBefore(m) + (IF dom <= MonthLength(m) THEN dom ELSE MonthLength(m))

\* the day of month m with day-of-month dom; 0 when the month has none
DayIn(m, dom) == IF dom <= MonthLength(m) THEN DaysBefore(m) + dom ELSE 0

\* monthly and yearly: the anchor's day of the month in every step-th month
\* from month m on; a month without that day is skipped; n occurrences
RECURSIVE MonthlyFrom(_, _, _, _)
MonthlyFrom(m, dom, step, n) ==
  IF n = 0 THEN <<>>
  ELSE IF DayIn(m, dom) # 0
    THEN <<DayIn(m, dom)>> \o MonthlyFrom(m + step, dom, step, n - 1)
    ELSE MonthlyFrom(m + step, dom, step, n)

\* the occurrence dates, in ascending order
OccurrenceDates(start, rule, count) ==
  CASE rule.frequency = "weekly" /\ rule.days_of_week # {} ->
         ByDayFrom(start, start, rule, count)
    [] rule.frequency = "monthly" ->
         MonthlyFrom(MonthOf(start), DayOfMonth(start), rule.interval, count)
    [] rule.frequency = "yearly" ->
         MonthlyFrom(MonthOf(start), DayOfMonth(start), 12 * rule.interval, count)
    [] OTHER -> [k \in 1..count |-> start + (k - 1) * StepDays(rule)]

\* the occurrences as instance rows without identifier, in ascending order
generateInstances(event, rule, count) ==
  [k \in 1..count |->
     [recurring_event_id |-> event.id,
      instance_date |-> OccurrenceDates(event.start_date, rule, count)[k],
      title |-> event.title,
      is_cancelled |-> FALSE]]

(* ------------------------------ database ------------------------------- *)
DB == [events |-> events, instances |-> instances,
       exceptions |-> exceptions, seq |-> seq]

EmptyDB == [events |-> {}, instances |-> {}, exceptions |-> {},
            seq |-> [ev |-> 0, inst |-> 0, exc |-> 0]]

\* SELECT * FROM Recurring_Events WHERE id = ?
EventRows(D, id) == {e \in D.events : e.id = id}

EventExists(D, id) == EventRows(D, id) # {}

EventRow(D, id) == CHOOSE e \in D.events : e.id = id

\* SELECT * FROM Event_Instances WHERE recurring_event_id = ?
InstancesOf(D, id) == {i \in D.instances : i.recurring_event_id = id}

ExceptionsOf(D, id) == {x \in D.exceptions : x.recurring_event_id = id}

InstanceDatesOf(D, id) == {i.instance_date : i \in InstancesOf(D, id)}

\* SELECT instance_date FROM Event_Exceptions WHERE recurring_event_id = ?
ExceptionDatesOf(D, id) == {x.instance_date : x \in ExceptionsOf(D, id)}

(* ------------------------------ statements ----------------------------- *)
\* INSERT INTO Recurring_Events (...) VALUES (...)
InsertEvent(D, title, startDate, rule) ==
  [D EXCEPT
     !.events = @ \cup {[id |-> D.seq.ev + 1, title |-> title,
                         start_date |-> startDate,
                         frequency |-> rule.frequency,
                         interval |-> rule.interval]},
     !.seq.ev = @ + 1]

\* UPDATE Recurring_Events SET ... WHERE id = ?
UpdateEvent(D, id, title, startDate, rule) ==
  [D EXCEPT
     !.events = {IF e.id = id
                   THEN [e EXCEPT !.title = title, !.start_date = startDate,
                                  !.frequency = rule.frequency,
                                  !.interval = rule.interval]
                   ELSE e : e \in @}]

\* DELETE FROM Event_Instances WHERE recurring_event_id = ?
\*   AND instance_date NOT IN (SELECT instance_date FROM Event_Exceptions ...)
DeleteNonExcepted(D, id) ==
  [D EXCEPT
     !.instances = {i \in @ : ~(/\ i.recurring_event_id = id
                                /\ i.instance_date \notin ExceptionDatesOf(D, id))}]

\* ... AND instance_date >= ? AND instance_date NOT IN (...)
DeleteFutureNonExcepted(D, id, day) ==
  [D EXCEPT
     !.instances = {i \in @ : ~(/\ i.recurring_event_id = id
                                /\ i.instance_date >= day
                                /\ i.instance_date \notin ExceptionDatesOf(D, id))}]

\* INSERT INTO Event_Instances (...) VALUES (...)
InsertInstance(D, inst) ==
  [D EXCEPT
     !.instances = @ \cup {[id |-> D.seq.inst + 1,
                            recurring_event_id |-> inst.recurring_event_id,
                            instance_date |-> inst.instance_date,
                            title |-> inst.title,
                            is_cancelled |-> inst.is_cancelled]},
     !.seq.inst = @ + 1]

Conflicts(D, inst) ==
  {i \in D.instances : /\ i.recurring_event_id = inst.recurring_event_id
                       /\ i.instance_date = inst.instance_date}

\* mutant: the conflict clause is missing, every row is inserted
UpsertInstanceNoConflict(D, inst) == InsertInstance(D, inst)

\* INSERT ... ON CONFLICT(recurring_event_id, instance_date) DO UPDATE SET
\*   start_time, end_time, title, description, location = excluded.*
UpsertInstance(D, inst) ==
  IF Conflicts(D, inst) = {}
    THEN InsertInstance(D, inst)
    ELSE [D EXCEPT
            !.instances = {IF i \in Conflicts(D, inst)
                             THEN [i EXCEPT !.title = inst.title]
                             ELSE i : i \in @}]

\* DELETE FROM Event_Instances WHERE recurring_event_id = ?
DeleteInstances(D, id) ==
  [D EXCEPT !.instances = {i \in @ : i.recurring_event_id # id}]

\* DELETE FROM Event_Exceptions WHERE recurring_event_id = ?
DeleteExceptions(D, id) ==
  [D EXCEPT !.exceptions = {x \in @ : x.recurring_event_id # id}]

\* mutant: the template row is left behind
DeleteEventKeepsRow(D, id) == D

\* mutant: the children do not go with the template row
DeleteEventNoCascade(D, id) ==
  [D EXCEPT !.events = {e \in @ : e.id # id}]

\* DELETE FROM Recurring_Events WHERE id = ?
\* Both child tables declare FOREIGN KEY (recurring_event_id) REFERENCES
\* Recurring_Events(id) ON DELETE CASCADE: their rows go with the template.
DeleteEvent(D, id) ==
  [D EXCEPT !.events = {e \in @ : e.id # id},
            !.instances = {i \in @ : i.recurring_event_id # id},
            !.exceptions = {x \in @ : x.recurring_event_id # id}]

\* mutant: the pivot date itself is left out
CancelFromAfter(D, id, day) ==
  [D EXCEPT
     !.instances = {IF i.recurring_event_id = id /\ i.instance_date > day
                      THEN [i EXCEPT !.is_cancelled = TRUE]
                      ELSE i : i \in @}]

\* UPDATE Event_Instances SET is_cancelled = 1
\*   WHERE recurring_event_id = ? AND instance_date >= ?
CancelFrom(D, id, day) ==
  [D EXCEPT
     !.instances = {IF i.recurring_event_id = id /\ i.instance_date >= day
                      THEN [i EXCEPT !.is_cancelled = TRUE]
                      ELSE i : i \in @}]

\* mutant: the date condition is missing, the whole series is cancelled
CancelOnAnyDate(D, id, day) ==
  [D EXCEPT
     !.instances = {IF i.recurring_event_id = id
                      THEN [i EXCEPT !.is_cancelled = TRUE]
                      ELSE i : i \in @}]

\* UPDATE Event_Instances SET is_cancelled = 1
\*   WHERE recurring_event_id = ? AND instance_date = ?
CancelOn(D, id, day) ==
  [D EXCEPT
     !.instances = {IF i.recurring_event_id = id /\ i.instance_date = day
                      THEN [i EXCEPT !.is_cancelled = TRUE]
                      ELSE i : i \in @}]

\* mutant: the exception is stored under the following day
InsertExceptionDayAfter(D, id, day) ==
  [D EXCEPT
     !.exceptions = @ \cup {[id |-> D.seq.exc + 1, recurring_event_id |-> id,
                             instance_date |-> day + 1,
                             exception_type |-> "cancelled"]},
     !.seq.exc = @ + 1]

\* mutant: the exception row is not stored
InsertExceptionSkipped(D, id, day) == D

\* INSERT OR IGNORE INTO Event_Exceptions (recurring_event_id, instance_date,
\*   exception_type) VALUES (?, ?, 'cancelled')
\* Event_Exceptions declares no UNIQUE constraint, so nothing is ignored.
InsertException(D, id, day) ==
  [D EXCEPT
     !.exceptions = @ \cup {[id |-> D.seq.exc + 1, recurring_event_id |-> id,
                             instance_date |-> day,
                             exception_type |-> "cancelled"]},
     !.seq.exc = @ + 1]

(* --------------------------- transactions ------------------------------ *)
\* SetToSeq by ascending value
RECURSIVE SortedSeq(_)
SortedSeq(S) ==
  IF S = {} THEN <<>>
  ELSE LET m == CHOOSE x \in S : \A y \in S : x <= y
       IN <<m>> \o SortedSeq(S \ {m})

\* one awaited statement of a handler
Exec(D, s) ==
  CASE s.kind = "updateEvent" -> UpdateEvent(D, s.id, s.title, s.startDate, s.rule)
    [] s.kind = "deleteNonExcepted" -> DeleteNonExcepted(D, s.id)
    [] s.kind = "deleteFutureNonExcepted" -> DeleteFutureNonExcepted(D, s.id, s.day)
    [] s.kind = "upsertInstance" -> UpsertInstance(D, s.inst)
    [] s.kind = "deleteInstances" -> DeleteInstances(D, s.id)
    [] s.kind = "deleteExceptions" -> DeleteExceptions(D, s.id)
    [] s.kind = "deleteEvent" -> DeleteEvent(D, s.id)
    [] s.kind = "cancelFrom" -> CancelFrom(D, s.id, s.day)
    [] s.kind = "cancelOn" -> CancelOn(D, s.id, s.day)
    [] s.kind = "insertException" -> InsertException(D, s.id, s.day)

\* the state after the first n statements
RECURSIVE Run(_, _, _)
Run(D, stmts, n) ==
  IF n = 0 THEN D ELSE Exec(Run(D, stmts, n - 1), stmts[n])

\* mutant: the catch block does not roll back
RollbackMissing(begun, current) == current

\* ROLLBACK: the state of BEGIN
Rollback(begun, current) == begun

\* try { BEGIN; stmts; COMMIT } catch { ROLLBACK; throw }
\* failAt = 0: every statement succeeds; failAt = k: statement k throws
Transaction(D, stmts, failAt) ==
  IF failAt = 0
    THEN [db |-> Run(D, stmts, Len(stmts)), status |-> 200]
    ELSE [db |-> Rollback(D, Run(D, stmts, failAt - 1)), status |-> 500]

(* --------------------------- POST /api/events -------------------------- *)
PostGuard(text) == IF text # NoRuleText /\ ~ValidRule(text) THEN 400 ELSE 0

\* the handler up to the awaited INSERT INTO Recurring_Events, which runs
\* outside any transaction (status 0: the handler goes on)
PostHandler(D, title, startDate, text) ==
  IF PostGuard(text) # 0
    THEN [db |-> D, status |-> PostGuard(text)]
    ELSE [db |-> InsertEvent(D, title, startDate, RuleOf(text)), status |-> 0]

(* ------------------------- PUT /api/events/:id ------------------------- *)
\* 0: the request passes the guards that precede BEGIN
PutGuard(D, id, text) ==
  IF ~EventExists(D, id) THEN 404
  ELSE IF text # NoRuleText /\ ~ValidRule(text) THEN 400
  ELSE 0

\* the statements between BEGIN and COMMIT, in program order
PutStatements(D, id, title, startDate, rule, updateScope, day) ==
  LET update == [kind |-> "updateEvent", id |-> id, title |-> title,
                 startDate |-> startDate, rule |-> rule]
      updatedEvent == EventRow(Exec(D, update), id)
      generated == generateInstances(updatedEvent, rule, instanceCount(rule))
      kept == SelectSeq(generated,
                LAMBDA i : ~(updateScope = "thisAndFuture" /\ i.instance_date < day))
      delete ==
        CASE updateScope = "all" -> <<[kind |-> "deleteNonExcepted", id |-> id]>>
          [] updateScope = "thisAndFuture" ->
               <<[kind |-> "deleteFutureNonExcepted", id |-> id, day |-> day]>>
          [] OTHER -> <<>>
      regenerate ==
        IF rule = NullRule THEN <<>>
        ELSE [k \in 1..Len(kept) |-> [kind |-> "upsertInstance", inst |-> kept[k]]]
  IN <<update>> \o delete \o regenerate

PutHandler(D, id, title, startDate, text, updateScope, day, failAt) ==
  IF PutGuard(D, id, text) # 0
    THEN [db |-> D, status |-> PutGuard(D, id, text)]
    ELSE Transaction(D, PutStatements(D, id, title, startDate, RuleOf(text),
                                      updateScope, day), failAt)

(* ------------------------ DELETE /api/events/:id ----------------------- *)
\* mutant: the existence check is missing
DeleteGuardMissing(D, id) == 0

DeleteGuard(D, id) == IF ~EventExists(D, id) THEN 404 ELSE 0

\* mutant: every request is treated as scope=all
DeleteStatementsAlwaysAll(D, id, deleteScope, instanceDate) ==
  <<[kind |-> "deleteInstances", id |-> id],
    [kind |-> "deleteExceptions", id |-> id],
    [kind |-> "deleteEvent", id |-> id]>>

DeleteStatements(D, id, deleteScope, instanceDate) ==
  CASE deleteScope = "all" ->
         <<[kind |-> "deleteInstances", id |-> id],
           [kind |-> "deleteExceptions", id |-> id],
           [kind |-> "deleteEvent", id |-> id]>>
    [] deleteScope = "thisAndFuture" /\ instanceDate # NoDate ->
         LET futureDates ==
               SortedSeq({i.instance_date : i \in
                            {j \in InstancesOf(D, id) : j.instance_date >= instanceDate}})
         IN <<[kind |-> "cancelFrom", id |-> id, day |-> instanceDate]>>
            \o [k \in 1..Len(futureDates) |->
                  [kind |-> "insertException", id |-> id, day |-> futureDates[k]]]
    [] deleteScope = "this" /\ instanceDate # NoDate ->
         <<[kind |-> "cancelOn", id |-> id, day |-> instanceDate],
           [kind |-> "insertException", id |-> id, day |-> instanceDate]>>
    [] OTHER -> <<>>

DeleteHandler(D, id, deleteScope, instanceDate, failAt) ==
  IF DeleteGuard(D, id) # 0
    THEN [db |-> D, status |-> DeleteGuard(D, id)]
    ELSE Transaction(D, DeleteStatements(D, id, deleteScope, instanceDate), failAt)

(* ------------------------- GET /api/events/:id ------------------------- *)
NoBody == [event |-> {}, instances |-> {}]

GetHandler(D, id) ==
  IF ~EventExists(D, id)
    THEN [status |-> 404, body |-> NoBody]
    ELSE [status |-> 200,
          body |-> [event |-> EventRows(D, id), instances |-> InstancesOf(D, id)]]

(* ---------------- instance-level endpoints (update, restore) ----------- *)
\* the exception rows of one occurrence
ExceptionsOn(D, id, day) ==
  {x \in ExceptionsOf(D, id) : x.instance_date = day}

InstanceExists(D, id, day) == day \in InstanceDatesOf(D, id)

\* update-instance: the occurrence takes the request's values and its
\* exception is created or replaced by one modified exception
UpdateInstanceHandler(D, id, day, title) ==
  IF ~EventExists(D, id) \/ ~InstanceExists(D, id, day)
    THEN [db |-> D, status |-> 404]
    ELSE [db |->
            [D EXCEPT
               !.instances = {IF i.recurring_event_id = id /\ i.instance_date = day
                                THEN [i EXCEPT !.title = title]
                                ELSE i : i \in @},
               !.exceptions = (@ \ ExceptionsOn(D, id, day)) \cup
                              {[id |-> D.seq.exc + 1, recurring_event_id |-> id,
                                instance_date |-> day,
                                exception_type |-> "modified"]},
               !.seq.exc = @ + 1],
          status |-> 200]

\* restore-instance: the occurrence's exception is deleted and it is no
\* longer cancelled
RestoreHandler(D, id, day) ==
  IF ~EventExists(D, id) \/ ~InstanceExists(D, id, day)
    THEN [db |-> D, status |-> 404]
    ELSE [db |->
            [D EXCEPT
               !.instances = {IF i.recurring_event_id = id /\ i.instance_date = day
                                THEN [i EXCEPT !.is_cancelled = FALSE]
                                ELSE i : i \in @},
               !.exceptions = @ \ ExceptionsOn(D, id, day)],
          status |-> 200]

(* ------------------------------ responses ------------------------------ *)
\* what the model keeps of the last answered request: the operation, the
\* status, the statement that threw (0: none), and for a request that was
\* served with 200 the template, the scope, the instance date and the number
\* of occurrences asked for (0 without a rule)
Response(op, id, status, scope, day, count, failAt, body) ==
  [op |-> op, id |-> id, status |-> status, scope |-> scope, date |-> day,
   count |-> count, failAt |-> failAt, body |-> body]

Rejected(op, status) == Response(op, 0, status, "", NoDate, 0, 0, NoBody)

Failed(op, failAt) == Response(op, 0, 500, "", NoDate, 0, failAt, NoBody)

Idle == [pc |-> "idle", id |-> 0, rule |-> NullRule]

Store(D) ==
  /\ events' = D.events
  /\ instances' = D.instances
  /\ exceptions' = D.exceptions
  /\ seq' = D.seq

WithinBounds(D) ==
  /\ D.seq.ev <= MaxEvents
  /\ D.seq.inst <= MaxInstId
  /\ D.seq.exc <= MaxExcId

\* the requests in flight at the same time, the transaction of the store's
\* connection, and the database when the requests arrived
NoTx == [open |-> FALSE, snapshot |-> EmptyDB]

\* no booking and no session stored
NoBook == [bookings |-> {}, current |-> <<>>, seq |-> 0, status |-> 0]

NoConc == [db0 |-> EmptyDB, tx |-> NoTx, rowid |-> 0, proc |-> <<>>]

\* the materialization under way: the template row, the rule text and the
\* generated occurrences
NoMat == [pc |-> "none", event |-> {}, text |-> NoRuleText, out |-> <<>>]

(* ------------------------------- actions ------------------------------- *)
Init ==
  /\ events = {}
  /\ instances = {}
  /\ exceptions = {}
  /\ seq = [ev |-> 0, inst |-> 0, exc |-> 0]
  /\ creating = Idle
  /\ last = Rejected("none", 0)
  /\ served = 0
  /\ conc = NoConc
  /\ mat = NoMat
  /\ book = NoBook

\* POST /api/events up to the awaited INSERT INTO Recurring_Events
\* (status 0: the request is still being served)
CreateBegin(title, startDate, text) ==
  /\ creating.pc = "idle"
  /\ served < MaxRequests
  /\ served' = served + 1
  /\ LET r == PostHandler(DB, title, startDate, text)
     IN /\ WithinBounds(r.db)
        /\ r.status = 0 => seq.inst + instanceCount(RuleOf(text)) <= MaxInstId
        /\ Store(r.db)
        /\ creating' = IF r.status = 0
                         THEN [pc |-> "inserted", id |-> r.db.seq.ev,
                               rule |-> RuleOf(text)]
                         ELSE creating
        /\ last' = IF r.status = 0
                     THEN Response("create", r.db.seq.ev, 0, "", NoDate, 0, 0, NoBody)
                     ELSE Rejected("create", r.status)
  /\ UNCHANGED <<conc, mat, book>>

\* the instances a create is to insert for its template
CreateInstances(D, c) ==
  IF c.rule = NullRule \/ ~EventExists(D, c.id) THEN <<>>
  ELSE generateInstances(EventRow(D, c.id), c.rule, instanceCount(c.rule))

RECURSIVE InsertAll(_, _, _)
InsertAll(D, insts, n) ==
  IF n = 0 THEN D ELSE InsertInstance(InsertAll(D, insts, n - 1), insts[n])

\* POST /api/events from the generation of the instances to the response
CreateFinish ==
  /\ creating.pc = "inserted"
  /\ LET insts == CreateInstances(DB, creating)
     IN Store(InsertAll(DB, insts, Len(insts)))
  /\ creating' = Idle
  /\ last' = Response("create", creating.id, 200, "", NoDate,
                      IF creating.rule = NullRule THEN 0
                      ELSE instanceCount(creating.rule), 0, NoBody)
  /\ UNCHANGED <<served, conc, mat, book>>

Put(id, title, startDate, text, updateScope, failAt) ==
  /\ creating.pc = "idle"
  /\ served < MaxRequests
  /\ served' = served + 1
  /\ failAt > 0 =>
       /\ PutGuard(DB, id, text) = 0
       /\ failAt <= Len(PutStatements(DB, id, title, startDate, RuleOf(text),
                                      updateScope, Today))
  /\ LET r == PutHandler(DB, id, title, startDate, text, updateScope, Today, failAt)
     IN /\ WithinBounds(r.db)
        /\ Store(r.db)
        /\ last' = IF r.status \in {400, 404}
                     THEN Rejected("put", r.status)
                     ELSE IF r.status = 500 THEN Failed("put", failAt)
                     ELSE Response("put", id, r.status, updateScope, NoDate,
                                   IF text = NoRuleText THEN 0
                                   ELSE instanceCount(RuleOf(text)),
                                   failAt, NoBody)
  /\ UNCHANGED <<creating, conc, mat, book>>

Delete(id, deleteScope, instanceDate, failAt) ==
  /\ creating.pc = "idle"
  /\ served < MaxRequests
  /\ served' = served + 1
  /\ failAt > 0 =>
       /\ DeleteGuard(DB, id) = 0
       /\ failAt <= Len(DeleteStatements(DB, id, deleteScope, instanceDate))
  /\ LET r == DeleteHandler(DB, id, deleteScope, instanceDate, failAt)
     IN /\ WithinBounds(r.db)
        /\ Store(r.db)
        /\ last' = IF r.status = 404
                     THEN Rejected("delete", 404)
                     ELSE IF r.status = 500 THEN Failed("delete", failAt)
                     ELSE Response("delete", id, r.status, deleteScope,
                                   instanceDate, 0, failAt, NoBody)
  /\ UNCHANGED <<creating, conc, mat, book>>

UpdateInstance(id, day, title) ==
  /\ creating.pc = "idle"
  /\ served < MaxRequests
  /\ served' = served + 1
  /\ LET r == UpdateInstanceHandler(DB, id, day, title)
     IN /\ WithinBounds(r.db)
        /\ Store(r.db)
        /\ last' = IF r.status = 404
                     THEN Rejected("updateInstance", 404)
                     ELSE Response("updateInstance", id, 200, "this", day, 0, 0,
                                   NoBody)
  /\ UNCHANGED <<creating, conc, mat, book>>

Restore(id, day) ==
  /\ creating.pc = "idle"
  /\ served < MaxRequests
  /\ served' = served + 1
  /\ LET r == RestoreHandler(DB, id, day)
     IN /\ Store(r.db)
        /\ last' = IF r.status = 404
                     THEN Rejected("restore", 404)
                     ELSE Response("restore", id, 200, "this", day, 0, 0, NoBody)
  /\ UNCHANGED <<creating, conc, mat, book>>

Next ==
  \/ \E title \in Titles, startDate \in StartDates,
        text \in RuleTexts \cup {NoRuleText} : CreateBegin(title, startDate, text)
  \/ CreateFinish
  \/ \E id \in EventIds, title \in Titles, startDate \in StartDates,
        text \in RuleTexts \cup {NoRuleText}, updateScope \in UpdateScopes,
        failAt \in 0..MaxFailAt : Put(id, title, startDate, text, updateScope, failAt)
  \/ \E id \in EventIds, deleteScope \in DeleteScopes,
        instanceDate \in InstanceDates, failAt \in 0..MaxFailAt :
          Delete(id, deleteScope, instanceDate, failAt)
  \/ \E id \in EventIds, day \in InstanceDates \ {NoDate}, title \in Titles :
        UpdateInstance(id, day, title)
  \/ \E id \in EventIds, day \in InstanceDates \ {NoDate} : Restore(id, day)

Spec == Init /\ [][Next]_vars

(* ------------- concurrent PUT and DELETE /api/events/:id --------------- *)
\* Two requests for the same template in flight together: two updates with
\* scope=all, or an update and a delete with scope=all, or two creates.
\* Every awaited db statement of the handler is one step, and the steps of
\* the two requests interleave.
\* env.DB is one connection: BEGIN TRANSACTION throws while a transaction is
\* open on it, COMMIT and ROLLBACK throw while none is, ROLLBACK undoes
\* everything written since the BEGIN, a statement run while no
\* transaction is open is committed at once, and last_insert_rowid() is the
\* rowid of the latest insert of the connection.
Procs == {1, 2}

Request(op, title, text) ==
  [op |-> op, pc |-> "start", id |-> 1, title |-> title, startDate |-> 1,
   text |-> text, gen |-> <<>>, k |-> 0, status |-> 0,
   begun |-> FALSE, ends |-> <<>>, own |-> 0]

\* a stored series: a template created with the rule text
Created(title, text) ==
  LET D == InsertEvent(EmptyDB, title, 1, RuleOf(text))
      insts == generateInstances(EventRow(D, 1), RuleOf(text),
                                 instanceCount(RuleOf(text)))
  IN InsertAll(D, insts, Len(insts))

ConcInit ==
  /\ \E text \in ValidTexts, cancelled \in BOOLEAN :
       LET D == IF cancelled
                  THEN DeleteHandler(Created("A", text), 1, "this", 1, 0).db
                  ELSE Created("A", text)
       IN /\ events = D.events
          /\ instances = D.instances
          /\ exceptions = D.exceptions
          /\ seq = D.seq
          /\ \/ \E t1 \in Titles, t2 \in Titles, x1 \in ValidTexts, x2 \in ValidTexts :
                  /\ x1 # x2
                  /\ conc = [db0 |-> D, tx |-> NoTx, rowid |-> 0,
                             proc |-> <<Request("put", t1, x1),
                                        Request("put", t2, x2)>>]
             \/ \E t1 \in Titles, x1 \in ValidTexts :
                  conc = [db0 |-> D, tx |-> NoTx, rowid |-> 0,
                          proc |-> <<Request("put", t1, x1),
                                     Request("delete", "", NoRuleText)>>]
             \/ \E x1 \in ValidTexts, x2 \in ValidTexts :
                  conc = [db0 |-> D, tx |-> NoTx, rowid |-> 0,
                          proc |-> <<Request("post", "A", x1),
                                     Request("post", "B", x2)>>]
  /\ creating = Idle
  /\ last = Rejected("none", 0)
  /\ served = 0
  /\ mat = NoMat
  /\ book = NoBook

Me(p) == conc.proc[p]

\* the request's own state moves on; when it is answered the status is kept
Goto(p, pc) == [conc EXCEPT !.proc[p].pc = pc]

Answer(c, p, status) ==
  [c EXCEPT !.proc[p].pc = "done", !.proc[p].status = status]

\* the request's BEGIN opened a transaction
Begun(c, p) == [c EXCEPT !.proc[p].begun = TRUE]

\* the request ran a COMMIT or a ROLLBACK: the statement is kept with its
\* outcome, since either one throws when no transaction is open
Ended(c, p, statement) ==
  [c EXCEPT !.proc[p].ends =
     Append(@, IF conc.tx.open THEN statement ELSE statement \o " threw")]

\* SELECT * FROM Recurring_Events WHERE id = ?, then the parseRRule guard
PutCheck(p) ==
  /\ Me(p).op = "put"
  /\ Me(p).pc = "start"
  /\ conc' = IF PutGuard(DB, Me(p).id, Me(p).text) # 0
               THEN Answer(conc, p, PutGuard(DB, Me(p).id, Me(p).text))
               ELSE Goto(p, "begin")
  /\ UNCHANGED <<events, instances, exceptions, seq, creating, last, served, mat, book>>

\* await db.prepare('BEGIN TRANSACTION').run()
PutBegin(p) ==
  /\ Me(p).op = "put"
  /\ Me(p).pc = "begin"
  /\ conc' = IF conc.tx.open
               THEN Goto(p, "catch")
               ELSE [Begun(Goto(p, "update"), p) EXCEPT
                       !.tx = [open |-> TRUE, snapshot |-> DB]]
  /\ UNCHANGED <<events, instances, exceptions, seq, creating, last, served, mat, book>>

\* UPDATE Recurring_Events SET ... WHERE id = ?
PutUpdate(p) ==
  /\ Me(p).pc = "update"
  /\ Store(UpdateEvent(DB, Me(p).id, Me(p).title, Me(p).startDate,
                       RuleOf(Me(p).text)))
  /\ conc' = Goto(p, "delete")
  /\ UNCHANGED <<creating, last, served, mat, book>>

\* updateScope 'all': DELETE FROM Event_Instances ... NOT IN (exception dates)
PutDelete(p) ==
  /\ Me(p).pc = "delete"
  /\ Store(DeleteNonExcepted(DB, Me(p).id))
  /\ conc' = Goto(p, "select")
  /\ UNCHANGED <<creating, last, served, mat, book>>

\* SELECT * FROM Recurring_Events WHERE id = ?; generateInstances(...)
\* When the row is gone the SELECT yields null and generateInstances throws
\* on reading its fields.
PutSelect(p) ==
  /\ Me(p).pc = "select"
  /\ conc' = IF ~EventExists(DB, Me(p).id)
               THEN Goto(p, "catch")
               ELSE [Goto(p, "upsert") EXCEPT
                       !.proc[p].gen =
                         generateInstances(EventRow(DB, Me(p).id),
                                           RuleOf(Me(p).text),
                                           instanceCount(RuleOf(Me(p).text))),
                       !.proc[p].k = 1]
  /\ UNCHANGED <<events, instances, exceptions, seq, creating, last, served, mat, book>>

\* one turn of the loop: the upsert of the next generated instance; it
\* throws on the foreign key when the template row is gone
PutUpsert(p) ==
  /\ Me(p).pc = "upsert"
  /\ Me(p).k <= Len(Me(p).gen)
  /\ Store(IF EventExists(DB, Me(p).id)
             THEN UpsertInstance(DB, Me(p).gen[Me(p).k]) ELSE DB)
  /\ conc' = IF EventExists(DB, Me(p).id)
               THEN [conc EXCEPT !.proc[p].k = @ + 1]
               ELSE Goto(p, "catch")
  /\ UNCHANGED <<creating, last, served, mat, book>>

\* SELECT * FROM Recurring_Events WHERE id = ? of DELETE
DelCheck(p) ==
  /\ Me(p).op = "delete"
  /\ Me(p).pc = "start"
  /\ conc' = IF DeleteGuard(DB, Me(p).id) # 0
               THEN Answer(conc, p, DeleteGuard(DB, Me(p).id))
               ELSE Goto(p, "begin")
  /\ UNCHANGED <<events, instances, exceptions, seq, creating, last, served, mat, book>>

\* await db.prepare('BEGIN TRANSACTION').run() of DELETE
DelBegin(p) ==
  /\ Me(p).op = "delete"
  /\ Me(p).pc = "begin"
  /\ conc' = IF conc.tx.open
               THEN Goto(p, "catch")
               ELSE [Begun(Goto(p, "instances"), p) EXCEPT
                       !.tx = [open |-> TRUE, snapshot |-> DB]]
  /\ UNCHANGED <<events, instances, exceptions, seq, creating, last, served, mat, book>>

\* deleteScope 'all': DELETE FROM Event_Instances WHERE recurring_event_id = ?
DelInstances(p) ==
  /\ Me(p).pc = "instances"
  /\ Store(DeleteInstances(DB, Me(p).id))
  /\ conc' = Goto(p, "exceptions")
  /\ UNCHANGED <<creating, last, served, mat, book>>

\* DELETE FROM Event_Exceptions WHERE recurring_event_id = ?
DelExceptions(p) ==
  /\ Me(p).pc = "exceptions"
  /\ Store(DeleteExceptions(DB, Me(p).id))
  /\ conc' = Goto(p, "event")
  /\ UNCHANGED <<creating, last, served, mat, book>>

\* DELETE FROM Recurring_Events WHERE id = ?
DelEvent(p) ==
  /\ Me(p).pc = "event"
  /\ Store(DeleteEvent(DB, Me(p).id))
  /\ conc' = Goto(p, "commit")
  /\ UNCHANGED <<creating, last, served, mat, book>>

\* POST: INSERT INTO Recurring_Events, outside any transaction; the
\* connection keeps the rowid of its latest insert
PostInsert(p) ==
  /\ Me(p).op = "post"
  /\ Me(p).pc = "start"
  /\ LET r == PostHandler(DB, Me(p).title, Me(p).startDate, Me(p).text)
     IN /\ Store(r.db)
        /\ conc' = IF r.status # 0
                     THEN Answer(conc, p, r.status)
                     ELSE [Goto(p, "reread") EXCEPT !.rowid = r.db.seq.ev,
                                                    !.proc[p].own = r.db.seq.ev]
  /\ UNCHANGED <<creating, last, served, mat, book>>

\* SELECT * FROM Recurring_Events WHERE id = last_insert_rowid(), then
\* generateInstances(newEventResult, recurrenceRule, instanceCount)
PostSelect(p) ==
  /\ Me(p).pc = "reread"
  /\ conc' = IF EventExists(DB, conc.rowid)
               THEN [Goto(p, "insert") EXCEPT
                       !.proc[p].id = conc.rowid,
                       !.proc[p].gen =
                          generateInstances(EventRow(DB, conc.rowid),
                                            RuleOf(Me(p).text),
                                            instanceCount(RuleOf(Me(p).text))),
                       !.proc[p].k = 1]
               ELSE Answer(conc, p, 200)
  /\ UNCHANGED <<events, instances, exceptions, seq, creating, last, served, mat, book>>

\* one turn of the loop: INSERT INTO Event_Instances of the next instance
PostInsertInstance(p) ==
  /\ Me(p).pc = "insert"
  /\ Me(p).k <= Len(Me(p).gen)
  /\ Store(InsertInstance(DB, Me(p).gen[Me(p).k]))
  /\ conc' = [conc EXCEPT !.proc[p].k = @ + 1, !.rowid = seq.inst + 1]
  /\ UNCHANGED <<creating, last, served, mat, book>>

\* the response of POST after the last insert
PostRespond(p) ==
  /\ Me(p).pc = "insert"
  /\ Me(p).k > Len(Me(p).gen)
  /\ conc' = Answer(conc, p, 200)
  /\ UNCHANGED <<events, instances, exceptions, seq, creating, last, served, mat, book>>

\* await db.prepare('COMMIT').run()
PutCommit(p) ==
  /\ \/ Me(p).pc = "upsert" /\ Me(p).k > Len(Me(p).gen)
     \/ Me(p).pc = "commit"
  /\ conc' = IF conc.tx.open
               THEN [Ended(Answer(conc, p, 200), p, "COMMIT") EXCEPT !.tx = NoTx]
               ELSE Ended(Goto(p, "catch"), p, "COMMIT")
  /\ UNCHANGED <<events, instances, exceptions, seq, creating, last, served, mat, book>>

\* catch: await db.prepare('ROLLBACK').run(); throw error (500)
PutCatch(p) ==
  /\ Me(p).pc = "catch"
  /\ Store(IF conc.tx.open THEN Rollback(conc.tx.snapshot, DB) ELSE DB)
  /\ conc' = [Ended(Answer(conc, p, 500), p, "ROLLBACK") EXCEPT !.tx = NoTx]
  /\ UNCHANGED <<creating, last, served, mat, book>>

ConcNext ==
  \E p \in Procs :
    \/ PutCheck(p)
    \/ PutBegin(p)
    \/ PutUpdate(p)
    \/ PutDelete(p)
    \/ PutSelect(p)
    \/ PutUpsert(p)
    \/ DelCheck(p)
    \/ DelBegin(p)
    \/ DelInstances(p)
    \/ DelExceptions(p)
    \/ DelEvent(p)
    \/ PutCommit(p)
    \/ PutCatch(p)
    \/ PostInsert(p)
    \/ PostSelect(p)
    \/ PostInsertInstance(p)
    \/ PostRespond(p)

ConcSpec == ConcInit /\ [][ConcNext]_vars

(* ---------------------------- materialization ------------------------- *)
\* The two lines that materialize a series, in POST and in PUT:
\*   const instanceCount = recurrenceRule.count || 10;
\*   const instances = generateInstances(event, recurrenceRule, instanceCount);
\* applied to templates of several anchor dates and to rules of every
\* frequency, with and without INTERVAL, COUNT and BYDAY.
Decimal == <<"1", "2", "3", "4", "5", "6", "7", "8", "9", "10">>

\* 0 stands for the absent key
KeyText(key, n) == IF n = 0 THEN <<>> ELSE << <<key, Decimal[n]>> >>

ByDays == {<<"MO", "WE">>, <<"WE", "MO">>, <<"TU">>, <<"SA", "SU">>}

MatTexts ==
  {<< <<"FREQ", f>> >> \o KeyText("INTERVAL", i) \o KeyText("COUNT", c) :
     f \in Frequencies, i \in 0..MaxInterval, c \in 0..MaxCount}
  \cup
  {<< <<"FREQ", "WEEKLY">> >> \o KeyText("INTERVAL", i)
     \o << <<"BYDAY", b>> >> \o KeyText("COUNT", c) :
     b \in ByDays, i \in 0..MaxInterval, c \in 0..MaxCount}

\* the first days of the year and days late in a month
MatStartDates == (1..MaxStart) \cup {15, 29, 30, 31}

MatInit ==
  /\ events = {}
  /\ instances = {}
  /\ exceptions = {}
  /\ seq = [ev |-> 0, inst |-> 0, exc |-> 0]
  /\ creating = Idle
  /\ last = Rejected("none", 0)
  /\ served = 0
  /\ conc = NoConc
  /\ book = NoBook
  /\ \E title \in Titles, startDate \in MatStartDates, text \in MatTexts :
       mat = [pc |-> "input",
              event |-> EventRow(InsertEvent(EmptyDB, title, startDate,
                                             RuleOf(text)), 1),
              text |-> text, out |-> <<>>]

Materialize ==
  /\ mat.pc = "input"
  /\ mat' = [mat EXCEPT
               !.pc = "output",
               !.out = generateInstances(mat.event, RuleOf(mat.text),
                                         instanceCount(RuleOf(mat.text)))]
  /\ UNCHANGED <<events, instances, exceptions, seq, creating, last, served, conc,
                 book>>

MatNext == Materialize

MatSpec == MatInit /\ [][MatNext]_vars

(* ------------------------------ bookings ------------------------------ *)
\* /api/bookings over the tables Bookings and Course_Sessions of schema.sql,
\* one request after the other.  The store starts from seeded rows written
\* with plain INSERT statements; the sessions lie in the future, the users
\* exist and the payment intent is created, so that the requests reach the
\* statements that write.
Sessions == {1, 2}

Users == 1..(MaxSeed + 1)

\* CHECK(attendance_status IN (...)) and CHECK(payment_status IN (...))
AttendanceStatuses == {"registered", "attended", "no-show", "cancelled"}

PaymentStatuses == {"pending", "paid", "failed", "comp/free"}

\* a field the request body does not carry
Undefined == "undefined"

BookingIds == 1..(MaxSeed + 1)

BookingOf(B, id) == CHOOSE b \in B.bookings : b.booking_id = id

BookingExists(B, id) == \E b \in B.bookings : b.booking_id = id

\* SELECT COUNT(*) FROM Bookings WHERE session_id = NEW.session_id
\*   AND attendance_status NOT IN ('cancelled')
NonCancelled(B, session) ==
  Cardinality({b \in B.bookings : /\ b.session_id = session
                                  /\ b.attendance_status # "cancelled"})

\* the body of both triggers: current_participants becomes the count
Recount(B, session) ==
  [B EXCEPT !.current[session] = NonCancelled(B, session)]

ChecksHold(row) ==
  /\ row.payment_status \in PaymentStatuses
  /\ row.attendance_status \in AttendanceStatuses

\* INSERT INTO Bookings (...): refused by a CHECK constraint (ok FALSE), or
\* the row is stored and the AFTER INSERT trigger runs
InsertBooking(B, user, session, payment, attendance) ==
  LET row == [booking_id |-> B.seq + 1, user_id |-> user,
              session_id |-> session, payment_status |-> payment,
              attendance_status |-> attendance]
  IN IF ~ChecksHold(row)
       THEN [db |-> B, ok |-> FALSE]
       ELSE [db |-> Recount([B EXCEPT !.bookings = @ \cup {row},
                                      !.seq = @ + 1], session),
             ok |-> TRUE]

\* UPDATE Bookings SET <the fields of the body> WHERE booking_id = ?: the
\* AFTER UPDATE trigger runs WHEN OLD.attendance_status != NEW.attendance_status
UpdateBooking(B, id, data) ==
  LET old == BookingOf(B, id)
      new == [old EXCEPT
                !.attendance_status = IF data.attendance_status = Undefined
                                        THEN @ ELSE data.attendance_status,
                !.payment_status = IF data.payment_status = Undefined
                                     THEN @ ELSE data.payment_status]
      written == [B EXCEPT !.bookings = (@ \ {old}) \cup {new}]
  IN IF ~ChecksHold(new)
       THEN [db |-> B, ok |-> FALSE]
       ELSE [db |-> IF old.attendance_status # new.attendance_status
                      THEN Recount(written, new.session_id)
                      ELSE written,
             ok |-> TRUE]

\* DELETE FROM Bookings WHERE booking_id = ?  (no trigger is declared)
DeleteBooking(B, id) ==
  [B EXCEPT !.bookings = {b \in @ : b.booking_id # id}]

\* UPDATE Course_Sessions SET current_participants = current_participants + n
AddParticipants(B, session, n) ==
  [B EXCEPT !.current[session] = @ + n]

\* the seeded store: bookings written one by one with INSERT, the triggers
\* running
RECURSIVE Seeded(_, _)
Seeded(rows, n) ==
  IF n = 0
    THEN [bookings |-> {}, current |-> [s \in Sessions |-> 0], seq |-> 0,
          status |-> 0]
    ELSE InsertBooking(Seeded(rows, n - 1), n, rows[n][1], "paid", rows[n][2]).db

\* POST /api/bookings
PostBookingHandler(B, user, session, attendance) ==
  IF B.current[session] >= Capacity THEN [db |-> B, status |-> 400]
  ELSE IF \E b \in B.bookings : b.user_id = user /\ b.session_id = session
    THEN [db |-> B, status |-> 400]
  ELSE LET r == InsertBooking(B, user, session, "payment_required",
                              IF attendance = Undefined THEN "registered"
                              ELSE attendance)
       IN IF ~r.ok THEN [db |-> B, status |-> 500]
          ELSE [db |-> AddParticipants(r.db, session, 1), status |-> 200]

\* PUT /api/bookings/:id
PutBookingHandler(B, id, data) ==
  IF ~BookingExists(B, id) THEN [db |-> B, status |-> 404]
  ELSE IF data.attendance_status = Undefined /\ data.payment_status = Undefined
    THEN [db |-> B, status |-> 400]
  ELSE LET existingBooking == BookingOf(B, id)
           r == UpdateBooking(B, id, data)
       IN IF ~r.ok THEN [db |-> B, status |-> 500]
          ELSE IF /\ data.attendance_status = "cancelled"
                  /\ existingBooking.attendance_status # "cancelled"
            THEN [db |-> AddParticipants(r.db, existingBooking.session_id, -1),
                  status |-> 200]
          ELSE [db |-> r.db, status |-> 200]

\* DELETE /api/bookings/:id
DeleteBookingHandler(B, id) ==
  IF ~BookingExists(B, id) THEN [db |-> B, status |-> 404]
  ELSE [db |-> AddParticipants(DeleteBooking(B, id),
                               BookingOf(B, id).session_id, -1),
        status |-> 200]

PutBodies ==
  {[attendance_status |-> a, payment_status |-> p] :
     a \in AttendanceStatuses \cup {Undefined}, p \in {Undefined, "paid"}}

BookInit ==
  /\ events = {}
  /\ instances = {}
  /\ exceptions = {}
  /\ seq = [ev |-> 0, inst |-> 0, exc |-> 0]
  /\ creating = Idle
  /\ last = Rejected("none", 0)
  /\ served = 0
  /\ conc = NoConc
  /\ mat = NoMat
  /\ \E n \in 0..MaxSeed :
       \E rows \in [1..n -> Sessions \X AttendanceStatuses] :
         book = Seeded(rows, n)

Answered(r) == book' = [r.db EXCEPT !.status = r.status]

PostBooking(user, session, attendance) ==
  /\ Answered(PostBookingHandler(book, user, session, attendance))
  /\ UNCHANGED <<events, instances, exceptions, seq, creating, last, served,
                 conc, mat>>

PutBooking(id, data) ==
  /\ Answered(PutBookingHandler(book, id, data))
  /\ UNCHANGED <<events, instances, exceptions, seq, creating, last, served,
                 conc, mat>>

DeleteBookingRequest(id) ==
  /\ Answered(DeleteBookingHandler(book, id))
  /\ UNCHANGED <<events, instances, exceptions, seq, creating, last, served,
                 conc, mat>>

BookNext ==
  \/ \E user \in Users, session \in Sessions,
        attendance \in AttendanceStatuses \cup {Undefined} :
          PostBooking(user, session, attendance)
  \/ \E id \in BookingIds, data \in PutBodies : PutBooking(id, data)
  \/ \E id \in BookingIds : DeleteBookingRequest(id)

BookSpec == BookInit /\ [][BookNext]_vars

(* ------------------------------- claims -------------------------------- *)

Rows(D) == [events |-> D.events, instances |-> D.instances,
            exceptions |-> D.exceptions]

\* C1: in every reachable state the instance table holds at most one row
\* per (template id, occurrence date) pair.
C1_OneInstancePerDate ==
  \A i, j \in instances :
    (i.recurring_event_id = j.recurring_event_id /\ i.instance_date = j.instance_date)
      => i = j

\* an update that regenerated one occurrence without deleting first, over the
\* two instances the create had inserted: the upsert met an existing pair
C1_Witness ==
  /\ last.op = "put" /\ last.status = 200 /\ last.scope = "this"
  /\ last.count = 1
  /\ served = 2 /\ seq.inst = 2
  /\ Cardinality(InstancesOf(DB, last.id)) = 2

\* C2: in every reachable state the exception table holds at most one row
\* per (template id, occurrence date) pair.
C2_OneExceptionPerDate ==
  \A x, y \in exceptions :
    (x.recurring_event_id = y.recurring_event_id /\ x.instance_date = y.instance_date)
      => x = y

C4_CreateAtomic ==
  (creating.pc = "inserted" /\ GetHandler(DB, creating.id).status = 200)
    => {i.instance_date : i \in GetHandler(DB, creating.id).body.instances}
         = {CreateInstances(DB, creating)[k].instance_date :
              k \in 1..Len(CreateInstances(DB, creating))}

\* C5: a create or update whose rule text is invalid (400) and an update or
\* delete whose template id does not exist (404) is rejected with the
\* template, instance and exception tables unchanged.
C5_RejectedBeforeAnyWrite ==
  /\ \A title \in Titles, startDate \in StartDates, text \in InvalidTexts :
       PostHandler(DB, title, startDate, text) = [db |-> DB, status |-> 400]
  /\ \A id \in EventIds, title \in Titles, startDate \in StartDates,
        text \in RuleTexts \cup {NoRuleText}, updateScope \in UpdateScopes,
        failAt \in 0..MaxFailAt :
       /\ ~EventExists(DB, id) =>
            PutHandler(DB, id, title, startDate, text, updateScope, Today, failAt)
              = [db |-> DB, status |-> 404]
       /\ (EventExists(DB, id) /\ text \in InvalidTexts) =>
            PutHandler(DB, id, title, startDate, text, updateScope, Today, failAt)
              = [db |-> DB, status |-> 400]
  /\ \A id \in EventIds, deleteScope \in DeleteScopes,
        instanceDate \in InstanceDates, failAt \in 0..MaxFailAt :
       ~EventExists(DB, id) =>
         DeleteHandler(DB, id, deleteScope, instanceDate, failAt)
           = [db |-> DB, status |-> 404]

\* a request was rejected with 400 or 404 while rows were stored
C5_Witness ==
  /\ last.op \in {"create", "put", "delete"}
  /\ last.status \in {400, 404}
  /\ events # {} /\ instances # {}

InstancesOn(D, id, day) == {i \in InstancesOf(D, id) : i.instance_date = day}

RoundTrip(id, day) ==
  LET c == DeleteHandler(DB, id, "this", day, 0)
      r == RestoreHandler(c.db, id, day)
  IN /\ c.status = 200 /\ r.status = 200
     /\ \A i \in InstancesOn(c.db, id, day) : i.is_cancelled
     /\ ExceptionsOn(c.db, id, day) # {}
     /\ \A i \in InstancesOn(r.db, id, day) : ~i.is_cancelled
     /\ ExceptionsOn(r.db, id, day) = {}
     /\ Rows(r.db) = Rows(DB)

\* C8 as stated: cancel then restore of any instance k is a round trip (the
\* stored rows after the pair are those of before the cancel).
C8_RoundTripAnyInstance ==
  \A id \in EventIds, day \in InstanceDates \ {NoDate} :
    (EventExists(DB, id) /\ InstanceExists(DB, id, day)) => RoundTrip(id, day)

\* C8 as amended: cancel then restore of an instance k that was not
\* cancelled and carried no exception before the cancel is a round trip.
C8_RoundTripActiveInstance ==
  \A id \in EventIds, day \in InstanceDates \ {NoDate} :
    (/\ EventExists(DB, id) /\ InstanceExists(DB, id, day)
     /\ \A i \in InstancesOn(DB, id, day) : ~i.is_cancelled
     /\ ExceptionsOn(DB, id, day) = {})
      => RoundTrip(id, day)

\* an instance of the only template was restored after the one exception
\* ever stored had been put on it: no exception and no cancelled mark remain
C8_Witness ==
  /\ last.op = "restore" /\ last.status = 200
  /\ served = 3 /\ seq.ev = 1 /\ seq.exc = 1
  /\ exceptions = {}
  /\ InstancesOn(DB, last.id, last.date) # {}
  /\ \A i \in instances : ~i.is_cancelled

GeneratedDates(event, rule) ==
  {generateInstances(event, rule, instanceCount(rule))[k].instance_date :
     k \in 1..instanceCount(rule)}

\* C9: after an update with scope=all that carries a rule, the instance
\* dates stored for the template are the dates the new rule materializes
\* together with the dates that carry an exception.
C9_RegeneratedDates ==
  \A id \in EventIds, title \in Titles, startDate \in StartDates,
     text \in ValidTexts :
    EventExists(DB, id) =>
      LET r == PutHandler(DB, id, title, startDate, text, "all", Today, 0)
      IN /\ r.status = 200
         /\ InstanceDatesOf(r.db, id)
              = GeneratedDates(EventRow(r.db, id), RuleOf(text))
                  \cup ExceptionDatesOf(r.db, id)

\* C10: an update with scope=all keeps the overridden values of every
\* instance whose date carries an exception: its cancelled flag, and its
\* title when the exception is a modification.
C10_OverridesPreserved ==
  \A id \in EventIds, title \in Titles, startDate \in StartDates,
     text \in ValidTexts \cup {NoRuleText} :
    EventExists(DB, id) =>
      LET r == PutHandler(DB, id, title, startDate, text, "all", Today, 0)
      IN \A i \in InstancesOf(DB, id) :
           ExceptionsOn(DB, id, i.instance_date) # {} =>
             \E j \in InstancesOf(r.db, id) :
               /\ j.id = i.id /\ j.instance_date = i.instance_date
               /\ j.is_cancelled = i.is_cancelled
               /\ (\E x \in ExceptionsOn(DB, id, i.instance_date) :
                      x.exception_type = "modified") => j.title = i.title

\* the request repeats the stored template: same fields, same rule
SameFields(D, id, title, startDate, text) ==
  /\ EventRow(D, id).title = title
  /\ EventRow(D, id).start_date = startDate
  /\ EventRow(D, id).frequency = RuleOf(text).frequency
  /\ EventRow(D, id).interval = RuleOf(text).interval

\* an instance row without its identifier
Keyed(i) == [recurring_event_id |-> i.recurring_event_id,
             instance_date |-> i.instance_date,
             title |-> i.title, is_cancelled |-> i.is_cancelled]

\* the stored series of the template is the one the rule materializes, one
\* row per date
Consistent(D, id, text) ==
  LET gen == generateInstances(EventRow(D, id), RuleOf(text),
                               instanceCount(RuleOf(text)))
  IN /\ {Keyed(i) : i \in InstancesOf(D, id)} = {gen[k] : k \in 1..Len(gen)}
     /\ Cardinality(InstancesOf(D, id)) = Len(gen)

\* C11: an update with scope=all that repeats the rule and the fields of an
\* already consistent series inserts, deletes and changes no instance row:
\* every instance row keeps its identifier and its values.
C11_RegenerationIdempotent ==
  \A id \in EventIds, title \in Titles, startDate \in StartDates,
     text \in ValidTexts :
    (/\ creating.pc = "idle" /\ EventExists(DB, id)
     /\ SameFields(DB, id, title, startDate, text)
     /\ Consistent(DB, id, text)) =>
      LET r == PutHandler(DB, id, title, startDate, text, "all", Today, 0)
      IN /\ r.status = 200
         /\ r.db.instances = DB.instances
         /\ r.db.seq.inst = DB.seq.inst

\* C12: an update with scope=all that raises COUNT from n to m > n, with the
\* same frequency and anchor, keeps the n instances under their identifiers
\* and adds m - n instances, m in total.
C12_CountRaiseKeepsIds ==
  \A id \in EventIds, title \in Titles, startDate \in StartDates,
     old \in ValidTexts, new \in ValidTexts :
    (/\ creating.pc = "idle" /\ EventExists(DB, id)
     /\ SameFields(DB, id, title, startDate, old)
     /\ Consistent(DB, id, old)
     /\ SameFields(DB, id, title, startDate, new)
     /\ instanceCount(RuleOf(new)) > instanceCount(RuleOf(old))) =>
      LET r == PutHandler(DB, id, title, startDate, new, "all", Today, 0)
      IN /\ r.status = 200
         /\ InstancesOf(DB, id) \subseteq InstancesOf(r.db, id)
         /\ Cardinality(InstancesOf(r.db, id)) = instanceCount(RuleOf(new))
         /\ r.db.seq.inst - DB.seq.inst
              = instanceCount(RuleOf(new)) - instanceCount(RuleOf(old))

\* C13: an update with scope=this changes the target occurrence only: the
\* template row and the instances of every other date are unchanged, and
\* the target date carries one modified exception.
C13_UpdateThisTouchesTargetOnly ==
  \A id \in EventIds, title \in Titles, startDate \in StartDates,
     text \in ValidTexts \cup {NoRuleText} :
    (creating.pc = "idle" /\ EventExists(DB, id)) =>
      LET r == PutHandler(DB, id, title, startDate, text, "this", Today, 0)
      IN /\ r.status = 200
         /\ r.db.events = DB.events
         /\ \E day \in InstanceDates \ {NoDate} :
              /\ r.db.instances \ InstancesOn(r.db, id, day)
                   = DB.instances \ InstancesOn(DB, id, day)
              /\ \E x \in ExceptionsOn(r.db, id, day) :
                   /\ ExceptionsOn(r.db, id, day) = {x}
                   /\ x.exception_type = "modified"

\* C14: after an update with scope=thisAndFuture at pivot date p (the
\* handler's pivot is the day of the request) every instance dated before p
\* is unchanged and every instance dated p or later carries the request's
\* field values.
C14_UpdateFutureAtPivot ==
  \A id \in EventIds, title \in Titles, startDate \in StartDates,
     text \in ValidTexts \cup {NoRuleText} :
    (creating.pc = "idle" /\ EventExists(DB, id)) =>
      LET r == PutHandler(DB, id, title, startDate, text, "thisAndFuture", Today, 0)
      IN /\ r.status = 200
         /\ {i \in InstancesOf(r.db, id) : i.instance_date < Today}
              = {i \in InstancesOf(DB, id) : i.instance_date < Today}
         /\ \A j \in InstancesOf(r.db, id) :
              j.instance_date >= Today => j.title = title

\* C15: an update with scope=thisAndFuture at pivot p splits the series: the
\* original template keeps its field values, a second template anchored at p
\* holds the request's values, and every instance and exception dated p or
\* later references the second template.
C15_UpdateFutureSplitsSeries ==
  \A id \in EventIds, title \in Titles, startDate \in StartDates,
     text \in ValidTexts \cup {NoRuleText} :
    (creating.pc = "idle" /\ EventExists(DB, id)) =>
      LET r == PutHandler(DB, id, title, startDate, text, "thisAndFuture", Today, 0)
      IN /\ r.status = 200
         /\ EventRow(r.db, id).title = EventRow(DB, id).title
         /\ \E second \in r.db.events \ DB.events :
              /\ second.id # id
              /\ second.title = title
              /\ second.start_date = Today
              /\ \A i \in InstancesOf(r.db, id) : i.instance_date < Today
              /\ \A x \in ExceptionsOf(r.db, id) : x.instance_date < Today

\* the instances of the template dated p or later
FromPivot(D, id, p) == {i \in InstancesOf(D, id) : i.instance_date >= p}

\* C16: after a delete with scope=thisAndFuture at pivot date p every
\* instance of the template dated p or later is cancelled and has an
\* exception for its date, and every instance dated before p is unchanged.
C16_DeleteFutureCancelsFromPivot ==
  \A id \in EventIds, p \in InstanceDates \ {NoDate} :
    (creating.pc = "idle" /\ EventExists(DB, id)) =>
      LET r == DeleteHandler(DB, id, "thisAndFuture", p, 0)
      IN /\ r.status = 200
         /\ FromPivot(r.db, id, p)
              = {[i EXCEPT !.is_cancelled = TRUE] : i \in FromPivot(DB, id, p)}
         /\ \A j \in FromPivot(r.db, id, p) :
              \E x \in ExceptionsOn(r.db, id, j.instance_date) :
                x.exception_type = "cancelled"
         /\ r.db.instances \ FromPivot(r.db, id, p)
              = DB.instances \ FromPivot(DB, id, p)
         /\ r.db.events = DB.events

\* a series of two was deleted with scope=thisAndFuture at its second date:
\* the first instance is active, the second cancelled with its exception
C16_Witness ==
  /\ last.op = "delete" /\ last.scope = "thisAndFuture" /\ last.status = 200
  /\ last.date = 2
  /\ \E i \in InstancesOf(DB, last.id) :
       i.instance_date < last.date /\ ~i.is_cancelled
  /\ \E j \in FromPivot(DB, last.id, last.date) :
       j.is_cancelled /\ ExceptionsOn(DB, last.id, j.instance_date) # {}

\* C17: a delete with scope=thisAndFuture at pivot date p truncates the
\* template: a regeneration (update with scope=all) that follows it produces
\* no uncancelled occurrence dated p or later.
C17_DeleteFutureTruncates ==
  (/\ creating.pc = "idle"
   /\ last.op = "delete" /\ last.scope = "thisAndFuture" /\ last.status = 200
   /\ last.date # NoDate
   /\ EventExists(DB, last.id)) =>
    \A title \in Titles, startDate \in StartDates, text \in ValidTexts :
      LET r == PutHandler(DB, last.id, title, startDate, text, "all", Today, 0)
      IN \A j \in FromPivot(r.db, last.id, last.date) : j.is_cancelled

\* template, instances by (template, date) and exceptions, without the
\* identifiers of the instance rows
Series(D) == [events |-> D.events,
              instances |-> {Keyed(i) : i \in D.instances},
              exceptions |-> D.exceptions]

\* the request of p served alone on database D
Alone(D, p) ==
  PutHandler(D, Me(p).id, Me(p).title, Me(p).startDate, Me(p).text, "all",
             Today, 0).db

\* the series left by serving the requests answered 200 one after the
\* other, in either order
SerialOutcomes ==
  LET ok == {p \in Procs : Me(p).status = 200}
  IN IF ok = {} THEN {Series(conc.db0)}
     ELSE IF ok = Procs
       THEN {Series(Alone(Alone(conc.db0, 1), 2)),
             Series(Alone(Alone(conc.db0, 2), 1))}
     ELSE {Series(Alone(conc.db0, p)) : p \in ok}

\* C18: two updates with scope=all and different rules that run together
\* against the same template are serialized: when both are answered, the
\* template row and the instances are those of serving them one after the
\* other in some order.
C18_ConcurrentUpdatesSerialized ==
  (\A p \in Procs : Me(p).op = "put" /\ Me(p).pc = "done") =>
    Series(DB) \in SerialOutcomes

\* the bound the rule text gives: its COUNT, or the default without COUNT
BoundOf(text) ==
  IF HasKey(text, "COUNT") THEN ParseInt(ValueOf(text, "COUNT")) ELSE DefaultCount

IntervalOf(text) ==
  IF HasKey(text, "INTERVAL") THEN ParseInt(ValueOf(text, "INTERVAL")) ELSE 1

\* C20: a rule FREQ=DAILY or FREQ=WEEKLY with COUNT=n and no BYDAY
\* materializes exactly n dates in ascending order, the first the anchor
\* date, each next one INTERVAL days (daily) or 7 x INTERVAL days (weekly)
\* after the one before.
C20_DailyWeeklyDates ==
  (/\ mat.pc = "output"
   /\ ValueOf(mat.text, "FREQ") \in {"DAILY", "WEEKLY"}
   /\ ~HasKey(mat.text, "BYDAY")
   /\ HasKey(mat.text, "COUNT")) =>
    /\ Len(mat.out) = ParseInt(ValueOf(mat.text, "COUNT"))
    /\ mat.out[1].instance_date = mat.event.start_date
    /\ \A k \in 1..(Len(mat.out) - 1) :
         mat.out[k + 1].instance_date - mat.out[k].instance_date
           = IntervalOf(mat.text)
               * (IF ValueOf(mat.text, "FREQ") = "DAILY" THEN 1 ELSE 7)

\* FREQ=WEEKLY;INTERVAL=2;COUNT=3 was materialized: three dates, the last
\* four weeks after the anchor
C20_Witness ==
  /\ mat.pc = "output"
  /\ mat.text = << <<"FREQ", "WEEKLY">>, <<"INTERVAL", "2">>, <<"COUNT", "3">> >>
  /\ Len(mat.out) = 3
  /\ mat.out[3].instance_date = mat.event.start_date + 28

\* the dates of the materialized occurrences
OutDates == [k \in 1..Len(mat.out) |-> mat.out[k].instance_date]

Ascending(dates) == \A k \in 1..(Len(dates) - 1) : dates[k] < dates[k + 1]

\* C21: a weekly rule with a BYDAY set materializes dates that all fall on a
\* weekday of the set, in strictly ascending order, and exactly COUNT of
\* them.
C21_ByDayDates ==
  (/\ mat.pc = "output"
   /\ ValueOf(mat.text, "FREQ") = "WEEKLY"
   /\ HasKey(mat.text, "BYDAY")) =>
    /\ \A k \in 1..Len(OutDates) :
         \E i \in 1..Len(ValueOf(mat.text, "BYDAY")) :
           DayOfWeek(OutDates[k]) = WeekdayNumber(ValueOf(mat.text, "BYDAY")[i])
    /\ Ascending(OutDates)
    /\ HasKey(mat.text, "COUNT") =>
         Len(OutDates) = ParseInt(ValueOf(mat.text, "COUNT"))

\* FREQ=WEEKLY;BYDAY=MO,WE;COUNT=4 anchored on a Monday was materialized
\* into Monday, Wednesday, Monday, Wednesday
C21_Witness ==
  /\ mat.pc = "output"
  /\ mat.text = << <<"FREQ", "WEEKLY">>, <<"BYDAY", <<"MO", "WE">> >>,
                   <<"COUNT", "4">> >>
  /\ mat.event.start_date = 1
  /\ OutDates = <<1, 3, 8, 10>>

\* C22: every date FREQ=MONTHLY materializes has the anchor's day of the
\* month, and a month without that day yields no occurrence: the months
\* between two consecutive occurrences that the rule steps on all lack it.
C22_MonthlyDates ==
  (mat.pc = "output" /\ ValueOf(mat.text, "FREQ") = "MONTHLY") =>
    /\ Len(OutDates) >= 1
    /\ OutDates[1] = mat.event.start_date
    /\ \A k \in 1..Len(OutDates) :
         DayOfMonth(OutDates[k]) = DayOfMonth(mat.event.start_date)
    /\ \A k \in 1..(Len(OutDates) - 1) :
         LET a == MonthOf(OutDates[k])
             b == MonthOf(OutDates[k + 1])
         IN /\ a < b
            /\ (b - a) % IntervalOf(mat.text) = 0
            /\ \A m \in (a + 1)..(b - 1) :
                 (m - a) % IntervalOf(mat.text) = 0 =>
                   MonthLength(m) < DayOfMonth(mat.event.start_date)

\* FREQ=MONTHLY;COUNT=3 anchored on 31 January was materialized into 31
\* January, 31 March and 31 May: February and April are skipped
C22_Witness ==
  /\ mat.pc = "output"
  /\ mat.text = << <<"FREQ", "MONTHLY">>, <<"COUNT", "3">> >>
  /\ mat.event.start_date = 31
  /\ OutDates = <<31, 90, 151>>

\* C23: an exception is created only for a date that has an instance: a
\* delete with scope=this or scope=thisAndFuture leaves no new exception row
\* for a (template, date) pair without instance row.
C23_ExceptionsOnlyForGeneratedDates ==
  \A id \in EventIds, deleteScope \in {"this", "thisAndFuture"},
     instanceDate \in InstanceDates :
    (creating.pc = "idle" /\ EventExists(DB, id)) =>
      LET r == DeleteHandler(DB, id, deleteScope, instanceDate, 0)
      IN \A x \in r.db.exceptions \ DB.exceptions :
           InstanceExists(r.db, x.recurring_event_id, x.instance_date)

\* C27: an instance is flagged cancelled only if an exception row exists
\* for its (template, date) pair.
C27_CancelledHasException ==
  \A i \in instances :
    i.is_cancelled =>
      ExceptionsOn(DB, i.recurring_event_id, i.instance_date) # {}

\* a series with a cancelled instance went through an update with scope=all
\* that regenerated it: the instance is still cancelled, with its exception
C27_Witness ==
  /\ last.op = "put" /\ last.scope = "all" /\ last.status = 200
  /\ last.count >= 1
  /\ \E i \in InstancesOf(DB, last.id) :
       i.is_cancelled /\ ExceptionsOn(DB, last.id, i.instance_date) # {}

\* C28: a delete of an existing template with scope this or thisAndFuture
\* and no instance date, or with a scope that is none of this, thisAndFuture
\* and all, leaves the three tables unchanged and is answered with success.
C28_DeleteWithoutTargetIsNoOp ==
  \A id \in EventIds, deleteScope \in DeleteScopes, instanceDate \in InstanceDates :
    (/\ creating.pc = "idle" /\ EventExists(DB, id)
     /\ \/ deleteScope \in {"this", "thisAndFuture"} /\ instanceDate = NoDate
        \/ deleteScope \notin {"this", "thisAndFuture", "all"}) =>
      DeleteHandler(DB, id, deleteScope, instanceDate, 0)
        = [db |-> DB, status |-> 200]

\* a delete without target date or with an unknown scope was answered with
\* success while a series with an exception was stored
C28_Witness ==
  /\ last.op = "delete" /\ last.status = 200
  /\ \/ last.scope \in {"this", "thisAndFuture"} /\ last.date = NoDate
     \/ last.scope = "other"
  /\ InstancesOf(DB, last.id) # {} /\ ExceptionsOf(DB, last.id) # {}

\* C29: an update with scope=all never shrinks a series below its rule:
\* after it the template has an instance for every date its rule
\* materializes, and an update that omits the rule keeps the instances.
C29_UpdateAllKeepsSeries ==
  \A id \in EventIds, title \in Titles, startDate \in StartDates,
     text \in ValidTexts \cup {NoRuleText} :
    (creating.pc = "idle" /\ EventExists(DB, id)) =>
      LET r == PutHandler(DB, id, title, startDate, text, "all", Today, 0)
      IN /\ r.status = 200
         /\ text # NoRuleText =>
              GeneratedDates(EventRow(r.db, id), RuleOf(text))
                \subseteq InstanceDatesOf(r.db, id)
         /\ text = NoRuleText =>
              InstanceDatesOf(r.db, id) = InstanceDatesOf(DB, id)

RowsOfOthers(D, id) ==
  [events |-> {e \in D.events : e.id # id},
   instances |-> {i \in D.instances : i.recurring_event_id # id},
   exceptions |-> {x \in D.exceptions : x.recurring_event_id # id}]

\* Served one after the other, an update or a delete of a template, whatever
\* its scope and whether it commits or rolls back, leaves the rows of every
\* other template as they were, and so does a finished create.
TemplatesIndependent ==
  /\ \A id \in EventIds, title \in Titles, startDate \in StartDates,
        text \in RuleTexts \cup {NoRuleText}, updateScope \in UpdateScopes,
        deleteScope \in DeleteScopes, day \in InstanceDates,
        failAt \in 0..MaxFailAt :
       creating.pc = "idle" =>
         /\ RowsOfOthers(PutHandler(DB, id, title, startDate, text, updateScope,
                                    Today, failAt).db, id) = RowsOfOthers(DB, id)
         /\ RowsOfOthers(DeleteHandler(DB, id, deleteScope, day, failAt).db, id)
              = RowsOfOthers(DB, id)
  /\ creating.pc = "inserted" =>
       LET insts == CreateInstances(DB, creating)
       IN RowsOfOthers(InsertAll(DB, insts, Len(insts)), creating.id)
            = RowsOfOthers(DB, creating.id)

\* the instance rows the create request p has inserted so far
InsertedBy(p) == {Me(p).gen[k] : k \in 1..(Me(p).k - 1)}

\* C26: in every interleaving of two concurrent creates, every instance a
\* create request has inserted references the template row that the same
\* request inserted.
C26_InstancesOfOwnTemplate ==
  \A p \in DOMAIN conc.proc :
    Me(p).op = "post" =>
      \A i \in InsertedBy(p) : i.recurring_event_id = Me(p).own

\* C25: a request that opened a transaction and was answered has run exactly
\* one statement that ended it, a COMMIT when it answers 200 and a ROLLBACK
\* when it answers 500, and once both requests are answered no transaction
\* is open.
C25_TransactionEndedOnce ==
  /\ \A p \in DOMAIN conc.proc :
       (Me(p).pc = "done" /\ Me(p).begun) =>
         \/ Me(p).status = 200 /\ Me(p).ends = <<"COMMIT">>
         \/ Me(p).status = 500 /\ Me(p).ends = <<"ROLLBACK">>
  /\ (\A p \in DOMAIN conc.proc : Me(p).pc = "done") => ~conc.tx.open

C30_ParticipantsMatchBookings ==
  \A session \in DOMAIN book.current :
    /\ book.current[session] = NonCancelled(book, session)
    /\ book.current[session] >= 0

====
